---- MODULE Spec2Model ----
(***************************************************************************)
(* Telehealth signaling relay (telehealth/consumers.py) and session        *)
(* lifecycle (telehealth/views.py) of the TheraCare backend.               *)
(*                                                                         *)
(* The relay part models VideoSessionConsumer on top of the channel layer: *)
(* a group is a set of channel names, group_send appends the event to the  *)
(* queue of every channel that is in the group at that moment, and each    *)
(* consumer handles one message at a time (its own connect/receive/        *)
(* disconnect and the events of its queue).                                *)
(***************************************************************************)
EXTENDS Integers, Sequences, FiniteSets, TLC

\* ---------------------------------------------------------------- bounds
NConns == 2        \* WebSocket connections (channel names 1..NConns)
NRooms == 3        \* room ids a connection URL may name
MaxFrames == 2     \* client frames received over all connections
MaxDisconnects == 2 \* runs of the disconnect handler per connection (SpecReinvoke)
NReqs == 3         \* HTTP requests against the session endpoints
NSessions == 2     \* rows of telehealth_session

\* ------------------------------------------------------------- constants
Null == 0          \* SQL NULL / Python None for ids and timestamps
None == "null"     \* Python None inside a JSON frame (json.dumps gives null)
FRONTEND_URL == 100 \* settings.FRONTEND_URL, the prefix of every join URL

Conns == 1..NConns
UrlRooms == 1..NRooms

Reqs == 1..NReqs

VARIABLES
    sessions,      \* telehealth_session table: id -> row
    req,           \* the HTTP requests: position, operation, row read, response
    now,           \* timezone.now()
    nextUuid,      \* the next value uuid.uuid4() returns (each call gives a fresh one)
    nextId,        \* the next value of the AutoField id (ids are never reused)
    mail,          \* emergency e-mail threads: session id -> state and what it captured
    transcripts,   \* telehealth_transcript: the session ids that have a record
    conn,          \* per connection: "new", "accepted", "open", "rejected" (connect
                   \* called close()), "closed" (disconnect has run),
                   \* "crashed" (the consumer ended with an exception)
    connRoom,      \* self.room_id of each consumer (Null before connect)
    groups,        \* channel layer groups: room -> set of channel names; no key when empty
    inbox,         \* channel layer queue of each channel name
    outbox,        \* frames sent to each client (self.send), with the event's origin
    sent,          \* history: the client frames handled so far, with sender, audience
                   \* and the connections of the room accepted but not yet subscribed
    joins,         \* history: group_add calls per channel name
    leaves,        \* history: group_discard calls per channel name
    leftPublished  \* history: participant_left group_sends per channel name

storeVars == <<sessions, req, now, nextUuid, nextId, mail, transcripts>>
relayVars == <<conn, connRoom, groups, inbox, outbox, sent, joins, leaves, leftPublished>>
vars == <<storeVars, relayVars>>

\* ------------------------------------------------------- session records
\* f"{settings.FRONTEND_URL}/telehealth/join/{room_id}"
JoinUrl(room_id) == FRONTEND_URL + room_id

\* A session row whose join URL is built from another uuid than its room_id.
NewRow_other_url(room, emergency) ==
    [status |-> "scheduled", started_at |-> Null, ended_at |-> Null,
     room_id |-> room, session_url |-> JoinUrl(room + 1), is_emergency |-> emergency,
     has_transcript |-> FALSE]

\* A row of telehealth_session (models.py): the fields the lifecycle touches.
NewRow(room, emergency) ==
    [status |-> "scheduled", started_at |-> Null, ended_at |-> Null,
     room_id |-> room, session_url |-> JoinUrl(room), is_emergency |-> emergency,
     has_transcript |-> FALSE]

\* get_session that finds a session for every room id.
get_session_any(room_id) == TRUE

\* TelehealthSession.objects.filter(room_id=room_id).first(): is there a row?
get_session(room_id) ==
    \E sid \in DOMAIN sessions : sessions[sid].room_id = room_id

\* ------------------------------------------------------------ the relay
\* scope['user']: even channel names are unauthenticated connections.
UserId(c) == IF c % 2 = 0 THEN "anonymous" ELSE ToString(c)

\* Frames a client may send.  A text frame that json.loads accepts as an object is a
\* record of its fields; any other text is [raw |-> text]; a binary frame is
\* [bytes |-> data].
ClientFrames ==
    { [type |-> "offer", offer |-> "X"],
      [type |-> "offer", sdp |-> "X"],
      [type |-> "offer", offer |-> "X", extra |-> "E"],
      [type |-> "offer", offer |-> "X", sender_channel |-> 2],
      [type |-> "answer", answer |-> "X"],
      [type |-> "ice_candidate", candidate |-> "X"],
      [type |-> "chat", message |-> "X"],
      [type |-> "chat", message |-> "X", sender_name |-> "Ann", timestamp |-> "t1"],
      [type |-> "join"],
      [sdp |-> "X"],
      [raw |-> "{"],
      [bytes |-> "B"] }

\* dict.get(key, default)
Get(data, key, default) == IF key \in DOMAIN data THEN data[key] ELSE default

\* handle_offer taking the sender tag from the frame when the frame has one.
handle_offer_trusting(c, data) ==
    IF "offer" \in DOMAIN data
    THEN <<[type |-> "webrtc_offer", offer |-> data.offer,
            sender_channel |-> Get(data, "sender_channel", c)]>>
    ELSE << >>

\* handle_*: the event group_send publishes, or nothing when data[key] raises
\* KeyError (caught and logged by receive).
handle_offer(c, data) ==
    IF "offer" \in DOMAIN data
    THEN <<[type |-> "webrtc_offer", offer |-> data.offer, sender_channel |-> c]>>
    ELSE << >>

\* handle_answer publishing under handle_offer's event type (a copy-paste slip).
handle_answer_as_offer(c, data) ==
    IF "answer" \in DOMAIN data
    THEN <<[type |-> "webrtc_offer", offer |-> data.answer, sender_channel |-> c]>>
    ELSE << >>

handle_answer(c, data) ==
    IF "answer" \in DOMAIN data
    THEN <<[type |-> "webrtc_answer", answer |-> data.answer, sender_channel |-> c]>>
    ELSE << >>

handle_ice_candidate(c, data) ==
    IF "candidate" \in DOMAIN data
    THEN <<[type |-> "webrtc_ice_candidate", candidate |-> data.candidate,
            sender_channel |-> c]>>
    ELSE << >>

handle_chat_message(c, data) ==
    IF "message" \in DOMAIN data
    THEN <<[type |-> "chat_message", message |-> data.message,
            sender_id |-> UserId(c),
            sender_name |-> Get(data, "sender_name", "Anonymous"),
            timestamp |-> Get(data, "timestamp", None),
            sender_channel |-> c]>>
    ELSE << >>

\* receive: what the frame makes the consumer publish (a sequence of 0 or 1 events).
receive(c, text_data) ==
    IF "raw" \in DOMAIN text_data THEN << >>          \* json.loads / data.get raises
    ELSE LET message_type == Get(text_data, "type", None) IN
         CASE message_type = "offer" -> handle_offer(c, text_data)
           [] message_type = "answer" -> handle_answer(c, text_data)
           [] message_type = "ice_candidate" -> handle_ice_candidate(c, text_data)
           [] message_type = "chat" -> handle_chat_message(c, text_data)
           [] OTHER -> << >>                          \* "Unknown message type"

\* Channel layer handlers: the frames self.send gives the client for an event.
\* participant_joined without the sender check.
participant_joined_unfiltered(c, event) ==
    <<[type |-> "participant_joined", user_id |-> event.user_id]>>

participant_joined(c, event) ==
    IF event.sender_channel # c
    THEN <<[type |-> "participant_joined", user_id |-> event.user_id]>> ELSE << >>

participant_left(c, event) ==
    IF event.sender_channel # c
    THEN <<[type |-> "participant_left", user_id |-> event.user_id]>> ELSE << >>

\* webrtc_offer without the sender check.
webrtc_offer_unfiltered(c, event) ==
    <<[type |-> "offer", offer |-> event.offer]>>

webrtc_offer(c, event) ==
    IF event.sender_channel # c
    THEN <<[type |-> "offer", offer |-> event.offer]>> ELSE << >>

webrtc_answer(c, event) ==
    IF event.sender_channel # c
    THEN <<[type |-> "answer", answer |-> event.answer]>> ELSE << >>

webrtc_ice_candidate(c, event) ==
    IF event.sender_channel # c
    THEN <<[type |-> "ice_candidate", candidate |-> event.candidate]>> ELSE << >>

chat_message(c, event) ==
    <<[type |-> "chat", message |-> event.message, sender_id |-> event.sender_id,
       sender_name |-> event.sender_name, timestamp |-> event.timestamp]>>

\* The consumer dispatches an event to the method named by its type.
Dispatch(c, event) ==
    CASE event.type = "participant_joined" -> participant_joined(c, event)
      [] event.type = "participant_left" -> participant_left(c, event)
      [] event.type = "webrtc_offer" -> webrtc_offer(c, event)
      [] event.type = "webrtc_answer" -> webrtc_answer(c, event)
      [] event.type = "webrtc_ice_candidate" -> webrtc_ice_candidate(c, event)
      [] event.type = "chat_message" -> chat_message(c, event)

\* Channel layer ------------------------------------------------------------
Members(g, room) == IF room \in DOMAIN g THEN g[room] ELSE {}

\* group_add under a group name that leaves the room id out: one group for all rooms.
group_add_shared(g, room, c) ==
    [r \in DOMAIN g \cup {1} |-> IF r = 1 THEN Members(g, 1) \cup {c} ELSE g[r]]

group_add(g, room, c) ==
    [r \in DOMAIN g \cup {room} |-> IF r = room THEN Members(g, room) \cup {c} ELSE g[r]]

\* group_discard that forgets to remove the channel.
group_discard_noop(g, room, c) == g

\* group_discard removes the channel and drops the group's key when it is empty.
group_discard(g, room, c) ==
    LET rest == Members(g, room) \ {c} IN
    IF rest = {} THEN [r \in DOMAIN g \ {room} |-> g[r]]
    ELSE [r \in DOMAIN g |-> IF r = room THEN rest ELSE g[r]]

\* group_send putting the events at the front of the queues.
group_send_lifo(q, g, room, events, n) ==
    [d \in Conns |->
        IF d \in Members(g, room)
        THEN [i \in 1..Len(events) |-> [ev |-> events[i], n |-> n]] \o q[d]
        ELSE q[d]]

\* group_send: the queues after each of `events` went to every member of the room.
\* `n` is the index in `sent` of the client frame the events came from (0 for the
\* announcements of connect and disconnect), kept for the record.
group_send(q, g, room, events, n) ==
    [d \in Conns |->
        IF d \in Members(g, room)
        THEN q[d] \o [i \in 1..Len(events) |-> [ev |-> events[i], n |-> n]]
        ELSE q[d]]

\* connect subscribing to the room group before it accepts.
ConnectAccept_subscribed(c, room) ==
    /\ conn[c] = "new"
    /\ connRoom' = [connRoom EXCEPT ![c] = room]
    /\ conn' = [conn EXCEPT ![c] = IF get_session(room) THEN "accepted" ELSE "rejected"]
    /\ groups' = IF get_session(room) THEN group_add(groups, room, c) ELSE groups
    /\ UNCHANGED <<storeVars, inbox, outbox, sent, joins, leaves, leftPublished>>

\* connect, lines 28-40: look the session up, then close() or accept().
ConnectAccept(c, room) ==
    /\ conn[c] = "new"
    /\ connRoom' = [connRoom EXCEPT ![c] = room]
    /\ conn' = [conn EXCEPT ![c] = IF get_session(room) THEN "accepted" ELSE "rejected"]
    /\ UNCHANGED <<storeVars, groups, inbox, outbox, sent, joins, leaves, leftPublished>>

\* connect, lines 43-57: group_add, then group_send(participant_joined).
ConnectJoin(c) ==
    /\ conn[c] = "accepted"
    /\ LET room == connRoom[c]
           g == group_add(groups, room, c)
           ev == [type |-> "participant_joined", user_id |-> UserId(c),
                  sender_channel |-> c]
       IN /\ groups' = g
          /\ inbox' = group_send(inbox, g, room, <<ev>>, 0)
    /\ joins' = [joins EXCEPT ![c] = @ + 1]
    /\ conn' = [conn EXCEPT ![c] = "open"]
    /\ UNCHANGED <<storeVars, connRoom, outbox, sent, leaves, leftPublished>>

\* websocket.receive on an open connection.  A text frame is handed to
\* receive(text_data).  A binary frame is handed over as receive(bytes_data=...),
\* which the signature receive(self, text_data) does not take: the TypeError is raised
\* outside receive's try block and ends the consumer, the server closes the socket,
\* and disconnect never runs for it.
Receive(c, frame) ==
    /\ conn[c] = "open"
    /\ Len(sent) < MaxFrames
    /\ sent' = Append(sent, [from |-> c, frame |-> frame,
                             to |-> Members(groups, connRoom[c]) \ {c},
                             early |-> {d \in Conns : conn[d] = "accepted"
                                                      /\ connRoom[d] = connRoom[c]}])
    /\ IF "bytes" \in DOMAIN frame
       THEN conn' = [conn EXCEPT ![c] = "crashed"] /\ inbox' = inbox
       ELSE /\ inbox' = group_send(inbox, groups, connRoom[c], receive(c, frame),
                                  Len(sent) + 1)
            /\ conn' = conn
    /\ UNCHANGED <<storeVars, connRoom, groups, outbox, joins, leaves, leftPublished>>

\* The consumer takes the next event of its queue and runs its handler.
Deliver(c) ==
    /\ conn[c] = "open"
    /\ inbox[c] # << >>
    /\ LET m == Head(inbox[c])
           out == Dispatch(c, m.ev)
       IN outbox' = [outbox EXCEPT ![c] = @ \o
              [i \in 1..Len(out) |->
                  [frame |-> out[i], origin |-> m.ev.sender_channel, n |-> m.n]]]
    /\ inbox' = [inbox EXCEPT ![c] = Tail(@)]
    /\ UNCHANGED <<storeVars, conn, connRoom, groups, sent, joins, leaves, leftPublished>>

\* disconnect leaving the group before it announces the leave.
disconnect_discard_first(c) ==
    LET room == connRoom[c]
        ev == [type |-> "participant_left", user_id |-> UserId(c), sender_channel |-> c]
        g == group_discard(groups, room, c)
    IN /\ groups' = g
       /\ inbox' = group_send(inbox, g, room, <<ev>>, 0)
       /\ leftPublished' = [leftPublished EXCEPT ![c] = @ + 1]
       /\ leaves' = [leaves EXCEPT ![c] = @ + 1]

\* disconnect body, lines 68-81: group_send(participant_left), then group_discard.
disconnect(c) ==
    LET room == connRoom[c]
        ev == [type |-> "participant_left", user_id |-> UserId(c), sender_channel |-> c]
    IN /\ inbox' = group_send(inbox, groups, room, <<ev>>, 0)
       /\ groups' = group_discard(groups, room, c)
       /\ leftPublished' = [leftPublished EXCEPT ![c] = @ + 1]
       /\ leaves' = [leaves EXCEPT ![c] = @ + 1]

\* websocket.disconnect: the framework calls disconnect once for a connection that
\* was accepted, and also for one that close() rejected during connect.
Disconnect(c) ==
    /\ conn[c] \in {"open", "rejected"}
    /\ disconnect(c)
    /\ conn' = [conn EXCEPT ![c] = "closed"]
    /\ UNCHANGED <<storeVars, connRoom, outbox, sent, joins>>

\* The disconnect handler invoked a second time for the same connection handle.
DisconnectAgain(c) ==
    /\ conn[c] = "closed"
    /\ leaves[c] < MaxDisconnects
    /\ disconnect(c)
    /\ UNCHANGED <<storeVars, conn, connRoom, outbox, sent, joins>>

\* Channel layer failures -------------------------------------------------
\* connect when the channel layer raises in group_add (failed = "group_add") or in
\* group_send (failed = "group_send"): the except branch of lines 61-63 logs the error
\* and calls close(); the framework runs disconnect afterwards.
ConnectJoinFail(c, failed) ==
    /\ conn[c] = "accepted"
    /\ IF failed = "group_add"
       THEN UNCHANGED <<groups, joins>>
       ELSE /\ groups' = group_add(groups, connRoom[c], c)
            /\ joins' = [joins EXCEPT ![c] = @ + 1]
    /\ conn' = [conn EXCEPT ![c] = "rejected"]
    /\ UNCHANGED <<storeVars, connRoom, inbox, outbox, sent, leaves, leftPublished>>

\* receive when group_send raises inside handle_*: the except branch of lines 103-104
\* logs the error and the frame is dropped.
ReceiveFail(c, frame) ==
    /\ conn[c] = "open"
    /\ Len(sent) < MaxFrames
    /\ "bytes" \notin DOMAIN frame
    /\ receive(c, frame) # << >>
    /\ sent' = Append(sent, [from |-> c, frame |-> frame, to |-> {}, early |-> {}])
    /\ UNCHANGED <<storeVars, conn, connRoom, groups, inbox, outbox, joins, leaves,
                   leftPublished>>

\* disconnect when group_send raises: nothing catches it, so the handler ends at line
\* 68 and the group_discard of lines 78-81 is never reached.
DisconnectFail(c) ==
    /\ conn[c] \in {"open", "rejected"}
    /\ conn' = [conn EXCEPT ![c] = "closed"]
    /\ UNCHANGED <<storeVars, connRoom, groups, inbox, outbox, sent, joins, leaves,
                   leftPublished>>

\* ------------------------------------------------- session lifecycle
\* users_user rows the requests refer to: 1 is a therapist, 2 a client (patient),
\* 3 is a UUID that matches no row and 4 stands for a patient_id that is not a UUID
\* at all (User.id is a UUIDField, so the lookup raises ValidationError).
UserRole(uid) ==
    CASE uid = 1 -> "therapist" [] uid = 2 -> "client" [] uid = 4 -> "invalid"
      [] OTHER -> "none"
Roles == {"admin", "therapist", "staff", "client"}
PatientIds == {Null, 1, 2, 3, 4}

NoRow == [status |-> "none", started_at |-> Null, ended_at |-> Null,
          room_id |-> Null, session_url |-> Null, is_emergency |-> FALSE,
          has_transcript |-> FALSE]
Response(code, error, data) == [code |-> code, error |-> error, data |-> data]
IdleReq == [pc |-> "idle", op |-> "none", sid |-> Null, body |-> << >>,
            read |-> NoRow, resp |-> Response(0, "", NoRow), overlaps |-> {}]

\* Request bodies of PUT/PATCH: TelehealthSessionSerializer leaves every field but
\* id, created_at and updated_at writable.
PatchBodies ==
    { [notes |-> "n"], [room_id |-> 1], [status |-> "completed"], [started_at |-> Null] }

\* ModelSerializer.update: setattr for each validated field of the body.
Patch(row, body) ==
    [f \in DOMAIN row |-> IF f \in DOMAIN body THEN body[f] ELSE row[f]]

\* start's guard rejecting only the terminal states.
start_allowed_lax(row) == row.status \notin {"completed", "cancelled"}

\* end's guard rejecting only the terminal states.
end_allowed_lax(row) == row.status \notin {"completed", "cancelled"}

\* The guards of start, end and cancel (views.py lines 159, 187, 215).
start_allowed(row) == row.status = "scheduled"
end_allowed(row) == row.status = "in-progress"
cancel_allowed(row) == row.status \notin {"completed", "cancelled"}

\* The instance each operation saves, from the instance get_object() returned.
start_apply(row, t) == [row EXCEPT !.status = "in-progress", !.started_at = t]
end_apply(row, t) == [row EXCEPT !.status = "completed", !.ended_at = t]
cancel_apply(row) == [row EXCEPT !.status = "cancelled"]
retrieve_apply(row, uuid) == [row EXCEPT !.room_id = uuid]

InFlight == {q \in Reqs : req[q].pc = "write"}

\* A request slot is used once, and the slots are taken in order.
Fresh(r) == req[r].pc = "idle" /\ (IF r = 1 THEN TRUE ELSE req[r - 1].pc # "idle")

Finish(r, op, sid, body, read, resp) ==
    req' = [req EXCEPT ![r] = [pc |-> "done", op |-> op, sid |-> sid, body |-> body,
                               read |-> read, resp |-> resp, overlaps |-> InFlight]]

Proceed(r, op, sid, body, read) ==
    req' = [req EXCEPT ![r] = [pc |-> "write", op |-> op, sid |-> sid, body |-> body,
                               read |-> read, resp |-> Response(0, "", NoRow),
                               overlaps |-> InFlight]]

NotFound(r, op, sid, body) ==
    Finish(r, op, sid, body, NoRow, Response(404, "Not found.", NoRow))

\* start, lines 157-163: get_object() and the status check.
StartBegin(r, sid) ==
    /\ Fresh(r)
    /\ IF sid \notin DOMAIN sessions THEN NotFound(r, "start", sid, << >>)
       ELSE IF ~start_allowed(sessions[sid])
       THEN Finish(r, "start", sid, << >>, sessions[sid],
                   Response(400, "Session must be scheduled to start.", NoRow))
       ELSE Proceed(r, "start", sid, << >>, sessions[sid])
    /\ UNCHANGED <<sessions, now, nextUuid, nextId, mail, transcripts, relayVars>>

\* end, lines 185-191.
EndBegin(r, sid) ==
    /\ Fresh(r)
    /\ IF sid \notin DOMAIN sessions THEN NotFound(r, "end", sid, << >>)
       ELSE IF ~end_allowed(sessions[sid])
       THEN Finish(r, "end", sid, << >>, sessions[sid],
                   Response(400, "Session must be in progress to end.", NoRow))
       ELSE Proceed(r, "end", sid, << >>, sessions[sid])
    /\ UNCHANGED <<sessions, now, nextUuid, nextId, mail, transcripts, relayVars>>

\* cancel, lines 213-219.
CancelBegin(r, sid) ==
    /\ Fresh(r)
    /\ IF sid \notin DOMAIN sessions THEN NotFound(r, "cancel", sid, << >>)
       ELSE IF ~cancel_allowed(sessions[sid])
       THEN Finish(r, "cancel", sid, << >>, sessions[sid],
                   Response(400, "Cannot cancel a completed or already cancelled session.",
                            NoRow))
       ELSE Proceed(r, "cancel", sid, << >>, sessions[sid])
    /\ UNCHANGED <<sessions, now, nextUuid, nextId, mail, transcripts, relayVars>>

\* retrieve, lines 48-49 (and 53-54 when the row already has a room_id).
RetrieveBegin(r, sid) ==
    /\ Fresh(r)
    /\ IF sid \notin DOMAIN sessions THEN NotFound(r, "retrieve", sid, << >>)
       ELSE IF sessions[sid].room_id # Null
       THEN Finish(r, "retrieve", sid, << >>, sessions[sid],
                   Response(200, "", sessions[sid]))
       ELSE Proceed(r, "retrieve", sid, << >>, sessions[sid])
    /\ UNCHANGED <<sessions, now, nextUuid, nextId, mail, transcripts, relayVars>>

\* update / partial_update: get_object(), then the serializer validates the body.
\* A client can name only a room id that uuid4 has already produced.
UpdateBegin(r, sid, body) ==
    /\ Fresh(r)
    /\ "room_id" \in DOMAIN body => body.room_id < nextUuid
    /\ IF sid \notin DOMAIN sessions THEN NotFound(r, "update", sid, body)
       ELSE Proceed(r, "update", sid, body, sessions[sid])
    /\ UNCHANGED <<sessions, now, nextUuid, nextId, mail, transcripts, relayVars>>

\* save_transcript, lines 240-259: role check, get_object(), transcript text check.
TranscriptBegin(r, sid, role, text) ==
    /\ Fresh(r)
    /\ LET body == [role |-> role, transcript |-> text] IN
       IF role \notin {"admin", "therapist"}
       THEN Finish(r, "save_transcript", sid, body, NoRow,
                   Response(403, "Only therapists and admins can save transcripts.", NoRow))
       ELSE IF sid \notin DOMAIN sessions THEN NotFound(r, "save_transcript", sid, body)
       ELSE IF text = ""
       THEN Finish(r, "save_transcript", sid, body, sessions[sid],
                   Response(400, "Transcript text is required.", NoRow))
       ELSE Proceed(r, "save_transcript", sid, body, sessions[sid])
    /\ UNCHANGED <<sessions, now, nextUuid, nextId, mail, transcripts, relayVars>>

\* The write of each operation.  instance.save() writes every column of the instance
\* the request read earlier; save(update_fields=['has_transcript']) writes one column.
Save(r) ==
    /\ req[r].pc = "write"
    /\ LET op == req[r].op
           sid == req[r].sid
           read == req[r].read
           saved == CASE op = "start" -> start_apply(read, now)
                      [] op = "end" -> end_apply(read, now)
                      [] op = "cancel" -> cancel_apply(read)
                      [] op = "retrieve" -> retrieve_apply(read, nextUuid)
                      [] op = "update" -> Patch(read, req[r].body)
                      [] op = "save_transcript" ->
                           IF sid \in DOMAIN sessions
                           THEN [sessions[sid] EXCEPT !.has_transcript = TRUE]
                           ELSE NoRow
       IN IF op = "save_transcript" /\ sid \notin DOMAIN sessions
          THEN \* the row is gone: update_or_create raises IntegrityError
               /\ req' = [req EXCEPT ![r].pc = "done",
                                     ![r].resp = Response(500, "IntegrityError", NoRow)]
               /\ UNCHANGED <<sessions, now, nextUuid, transcripts>>
          ELSE \* Model.save(): UPDATE by primary key, INSERT when no row matched
               /\ sessions' = [s \in DOMAIN sessions \cup {sid} |->
                                  IF s = sid THEN saved ELSE sessions[s]]
               /\ req' = [req EXCEPT ![r].pc = "done",
                                     ![r].resp = Response(200, "", saved)]
               /\ now' = IF op \in {"start", "end"} THEN now + 1 ELSE now
               /\ nextUuid' = IF op = "retrieve" THEN nextUuid + 1 ELSE nextUuid
               /\ transcripts' = IF op = "save_transcript" THEN transcripts \cup {sid}
                                 ELSE transcripts
    /\ UNCHANGED <<nextId, mail, relayVars>>

\* create (POST): TelehealthSessionCreateSerializer has no status and no room_id field.
Create(r, is_emergency) ==
    /\ Fresh(r)
    /\ nextId <= NSessions
    /\ LET sid == nextId
           row == [NewRow(Null, is_emergency) EXCEPT !.session_url = Null]
       IN /\ sessions' = [s \in DOMAIN sessions \cup {sid} |->
                             IF s = sid THEN row ELSE sessions[s]]
          /\ Finish(r, "create", sid, << >>, NoRow, Response(201, "", row))
    /\ nextId' = nextId + 1
    /\ UNCHANGED <<now, nextUuid, mail, transcripts, relayVars>>

\* create_emergency, lines 313-345: the checks that end the request with an error.
emergency_error(role, patient_id) ==
    IF role \notin {"admin", "therapist", "staff"}
    THEN Response(403, "Only therapists, staff, and admins can create emergency sessions.",
                  NoRow)
    ELSE IF patient_id = Null
    THEN Response(400, "patient_id is required for emergency sessions", NoRow)
    ELSE IF UserRole(patient_id) = "invalid"
    THEN Response(500, "", NoRow)      \* only User.DoesNotExist is caught
    ELSE IF UserRole(patient_id) = "none"
    THEN Response(404, "Patient not found", NoRow)
    ELSE IF UserRole(patient_id) # "client"
    THEN Response(400, "Selected user is not a patient", NoRow)
    ELSE Response(0, "", NoRow)

\* create_emergency: checks, uuid4, objects.create, start the e-mail thread, respond.
CreateEmergency(r, role, patient_id) ==
    /\ Fresh(r)
    /\ LET body == [role |-> role, patient_id |-> patient_id]
           err == emergency_error(role, patient_id)
           sid == nextId
           row == NewRow(nextUuid, TRUE)
       IN IF err.code # 0
          THEN /\ Finish(r, "create_emergency", Null, body, NoRow, err)
               /\ UNCHANGED <<sessions, nextUuid, nextId, mail>>
          ELSE /\ nextId <= NSessions
               /\ nextId' = nextId + 1
               /\ sessions' = [s \in DOMAIN sessions \cup {sid} |->
                                  IF s = sid THEN row ELSE sessions[s]]
               /\ nextUuid' = nextUuid + 1
               /\ mail' = [s \in DOMAIN mail \cup {sid} |->
                              IF s = sid
                              THEN [state |-> "running", session_url |-> row.session_url,
                                    room_id |-> nextUuid]
                              ELSE mail[s]]
               /\ Finish(r, "create_emergency", sid, body, NoRow, Response(201, "", row))
    /\ UNCHANGED <<now, transcripts, relayVars>>

\* send_email_async undoing the creation when send_mail raises.
MailDone_rollback(sid, outcome) ==
    /\ sid \in DOMAIN mail
    /\ mail[sid].state = "running"
    /\ mail' = [mail EXCEPT ![sid].state = outcome]
    /\ sessions' = IF outcome = "failed"
                   THEN [s \in DOMAIN sessions \ {sid} |-> sessions[s]]
                   ELSE sessions
    /\ UNCHANGED <<req, now, nextUuid, nextId, transcripts, relayVars>>

\* send_email_async ends: send_mail returned, or raised and the error was logged.
MailDone(sid, outcome) ==
    /\ sid \in DOMAIN mail
    /\ mail[sid].state = "running"
    /\ mail' = [mail EXCEPT ![sid].state = outcome]
    /\ UNCHANGED <<sessions, req, now, nextUuid, nextId, transcripts, relayVars>>

\* Cancelling the appointment deleting the scheduled session instead of marking it.
AppointmentCancel_delete(r, sid) ==
    /\ Fresh(r)
    /\ sid \in DOMAIN sessions
    /\ sessions' = IF sessions[sid].status = "scheduled"
                   THEN [s \in DOMAIN sessions \ {sid} |-> sessions[s]]
                   ELSE sessions
    /\ Finish(r, "appointment_cancel", sid, << >>, sessions[sid], Response(200, "", NoRow))
    /\ UNCHANGED <<now, nextUuid, nextId, mail, transcripts, relayVars>>

\* appointments/views.py: cancelling the linked appointment runs
\* filter(..., status="scheduled").update(status="cancelled") on the session.
AppointmentCancel(r, sid) ==
    /\ Fresh(r)
    /\ sid \in DOMAIN sessions
    /\ sessions' = [sessions EXCEPT ![sid].status =
                       IF @ = "scheduled" THEN "cancelled" ELSE @]
    /\ Finish(r, "appointment_cancel", sid, << >>, sessions[sid], Response(200, "", NoRow))
    /\ UNCHANGED <<now, nextUuid, nextId, mail, transcripts, relayVars>>

\* my_sessions / upcoming / emergency_sessions (and the ModelViewSet list): the stored
\* rows are serialized as they are; sid picks one session of the returned list.
MySessions(r, sid) ==
    /\ Fresh(r)
    /\ sid \in DOMAIN sessions
    /\ Finish(r, "my_sessions", sid, << >>, sessions[sid], Response(200, "", sessions[sid]))
    /\ UNCHANGED <<sessions, now, nextUuid, nextId, mail, transcripts, relayVars>>

\* destroy (DELETE of the ModelViewSet): get_object(), then instance.delete(); the
\* transcript of the session goes with it (on_delete CASCADE).
Destroy(r, sid) ==
    /\ Fresh(r)
    /\ IF sid \notin DOMAIN sessions
       THEN NotFound(r, "destroy", sid, << >>) /\ UNCHANGED <<sessions, transcripts>>
       ELSE /\ sessions' = [s \in DOMAIN sessions \ {sid} |-> sessions[s]]
            /\ transcripts' = transcripts \ {sid}
            /\ Finish(r, "destroy", sid, << >>, sessions[sid], Response(204, "", NoRow))
    /\ UNCHANGED <<now, nextUuid, nextId, mail, relayVars>>

\* ---------------------------------------------------------- specifications
InitRelayVars ==
    /\ conn = [c \in Conns |-> "new"]
    /\ connRoom = [c \in Conns |-> Null]
    /\ groups = << >>
    /\ inbox = [c \in Conns |-> << >>]
    /\ outbox = [c \in Conns |-> << >>]
    /\ sent = << >>
    /\ joins = [c \in Conns |-> 0]
    /\ leaves = [c \in Conns |-> 0]
    /\ leftPublished = [c \in Conns |-> 0]

InitRequests ==
    /\ req = [r \in Reqs |-> IdleReq]
    /\ now = 1
    /\ transcripts = {}

\* The session endpoints start with one session booked through create (no room_id yet).
Init ==
    /\ sessions = <<[NewRow(Null, FALSE) EXCEPT !.session_url = Null]>>
    /\ nextUuid = 1
    /\ nextId = 2
    /\ mail = << >>
    /\ InitRequests
    /\ InitRelayVars

\* The store the relay runs against: sessions made by create_emergency, whose e-mail
\* threads have ended.
InitRelay ==
    /\ sessions = [sid \in 1..(NRooms - 1) |-> NewRow(sid, TRUE)]
    /\ nextUuid = NRooms
    /\ nextId = NRooms
    /\ mail = [sid \in 1..(NRooms - 1) |->
                  [state |-> "sent", session_url |-> JoinUrl(sid), room_id |-> sid]]
    /\ InitRequests
    /\ InitRelayVars

\* Every endpoint but the record update (PUT/PATCH).
LifecycleBegin ==
    \/ \E r \in Reqs, sid \in 1..NSessions : StartBegin(r, sid)
    \/ \E r \in Reqs, sid \in 1..NSessions : EndBegin(r, sid)
    \/ \E r \in Reqs, sid \in 1..NSessions : CancelBegin(r, sid)
    \/ \E r \in Reqs, sid \in 1..NSessions : RetrieveBegin(r, sid)
    \/ \E r \in Reqs, sid \in 1..NSessions, role \in {"therapist", "client"},
          text \in {"", "t"} : TranscriptBegin(r, sid, role, text)
    \/ \E r \in Reqs, e \in BOOLEAN : Create(r, e)
    \/ \E r \in Reqs, role \in Roles, p \in PatientIds : CreateEmergency(r, role, p)
    \/ \E r \in Reqs, sid \in 1..NSessions : AppointmentCancel(r, sid)
    \/ \E r \in Reqs, sid \in 1..NSessions : Destroy(r, sid)
    \/ \E r \in Reqs, sid \in 1..NSessions : MySessions(r, sid)

Begin ==
    \/ LifecycleBegin
    \/ \E r \in Reqs, sid \in 1..NSessions, body \in PatchBodies : UpdateBegin(r, sid, body)

Next ==
    \/ Begin
    \/ \E r \in Reqs : Save(r)
    \/ \E sid \in 1..NSessions, outcome \in {"sent", "failed"} : MailDone(sid, outcome)

\* The requests of any number of clients, interleaved at their database accesses.
Spec == Init /\ [][Next]_vars

\* One request at a time: a request begins only when no other is between its read
\* and its write.
NextSeq ==
    \/ InFlight = {} /\ Begin
    \/ \E r \in Reqs : Save(r)
    \/ \E sid \in 1..NSessions, outcome \in {"sent", "failed"} : MailDone(sid, outcome)

SpecSeq == Init /\ [][NextSeq]_vars

\* The requests interleaved as in Spec, with no record update among them.
NextLifecycle ==
    \/ LifecycleBegin
    \/ \E r \in Reqs : Save(r)
    \/ \E sid \in 1..NSessions, outcome \in {"sent", "failed"} : MailDone(sid, outcome)

SpecLifecycle == Init /\ [][NextLifecycle]_vars

\* The session endpoints from the state a successful start leaves: the booked session
\* is in-progress.
InitStarted ==
    /\ sessions = <<start_apply([NewRow(Null, FALSE) EXCEPT !.session_url = Null], 1)>>
    /\ nextUuid = 1
    /\ nextId = 2
    /\ mail = << >>
    /\ req = [r \in Reqs |-> IdleReq]
    /\ now = 2
    /\ transcripts = {}
    /\ InitRelayVars

SpecStarted == InitStarted /\ [][Next]_vars

NextRelay ==
    \/ \E c \in Conns, room \in UrlRooms : ConnectAccept(c, room)
    \/ \E c \in Conns : ConnectJoin(c)
    \/ \E c \in Conns, frame \in ClientFrames : Receive(c, frame)
    \/ \E c \in Conns : Deliver(c)
    \/ \E c \in Conns : Disconnect(c)

SpecRelay == InitRelay /\ [][NextRelay]_vars

NextReinvoke ==
    \/ NextRelay
    \/ \E c \in Conns : DisconnectAgain(c)

SpecReinvoke == InitRelay /\ [][NextReinvoke]_vars

\* The relay over a channel layer whose calls may raise (a pub/sub outage).
NextOutage ==
    \/ NextRelay
    \/ \E c \in Conns, failed \in {"group_add", "group_send"} : ConnectJoinFail(c, failed)
    \/ \E c \in Conns, frame \in ClientFrames : ReceiveFail(c, frame)
    \/ \E c \in Conns : DisconnectFail(c)

SpecOutage == InitRelay /\ [][NextOutage]_vars

\* ------------------------------------------------------------ relay claims
\* Positions <<c, i>> of the frames the clients have received.
Outs == UNION {{<<c, i>> : i \in 1..Len(outbox[c])} : c \in Conns}
Out(p) == outbox[p[1]][p[2]]

\* The payload field each relayed kind reads from the client frame.
Kinds == {"offer", "answer", "ice_candidate", "chat"}
PayloadField(kind) ==
    CASE kind = "offer" -> "offer"
      [] kind = "answer" -> "answer"
      [] kind = "ice_candidate" -> "candidate"
      [] kind = "chat" -> "message"

DeclaresKind(frame) == "type" \in DOMAIN frame /\ frame.type \in Kinds
Relayable(frame) == DeclaresKind(frame) /\ PayloadField(frame.type) \in DOMAIN frame

Pending(b, n) == \E i \in 1..Len(inbox[b]) : inbox[b][i].n = n
Delivered(b, n) == {p \in Outs : p[1] = b /\ Out(p).n = n}

LeftSeen(b, a) ==
    Cardinality({i \in 1..Len(inbox[b]) :
                    inbox[b][i].ev.type = "participant_left"
                    /\ inbox[b][i].ev.sender_channel = a})
    + Cardinality({p \in Outs : p[1] = b /\ Out(p).frame.type = "participant_left"
                                /\ Out(p).origin = a})

\* C9 (as stated): however often the disconnect handler runs for a connection, one
\* participant_left is published for it, so no connection is sent a second one.
C9_OneLeftAnnouncement ==
    \A a, b \in Conns : LeftSeen(b, a) <= 1

\* C10: the members of every room are exactly the connections of that room with more
\* joins than leaves, and a room with no member has no entry.
C10_PresenceAccounting ==
    \A room \in UrlRooms :
        /\ Cardinality(Members(groups, room))
             = Cardinality({c \in Conns : connRoom[c] = room /\ joins[c] > leaves[c]})
        /\ room \in DOMAIN groups => groups[room] # {}

\* C10 witness: two connections joined a room, one left, and the other is its only member.
C10_Witness ==
    \E a, b \in Conns :
        /\ a # b /\ connRoom[a] = connRoom[b]
        /\ joins[a] = 1 /\ joins[b] = 1 /\ leaves[a] >= 1 /\ leaves[b] = 0
        /\ Members(groups, connRoom[a]) = {b}

\* ---------------------------------------------------------- session claims
Transitions == {"start", "end", "cancel"}

\* The transition table: precondition and target status of each operation.
Precondition(op, status) ==
    CASE op = "start" -> status = "scheduled"
      [] op = "end" -> status = "in-progress"
      [] op = "cancel" -> status \notin {"completed", "cancelled"}
Target(op) ==
    CASE op = "start" -> "in-progress" [] op = "end" -> "completed"
      [] op = "cancel" -> "cancelled"

Done(r) == req[r].pc = "done"

\* C3: with the calls made one after the other, a start, end or cancel call on a
\* stored session succeeds exactly when its precondition holds in the stored status,
\* and then stores the operation's target status; otherwise it answers with an error
\* and status, started_at and ended_at stay as they were.
C3_TransitionLegality ==
    [][\A r \in Reqs :
         (req[r].pc # "done" /\ req'[r].pc = "done" /\ req'[r].op \in Transitions
          /\ req'[r].sid \in DOMAIN sessions)
         => LET sid == req'[r].sid
                pre == sessions[sid]
                post == sessions'[sid]
                ok == req'[r].resp.code = 200
            IN IF Precondition(req'[r].op, pre.status)
               THEN ok /\ post.status = Target(req'[r].op)
               ELSE /\ req'[r].resp.code = 400 /\ req'[r].resp.error # ""
                    /\ post.status = pre.status
                    /\ post.started_at = pre.started_at
                    /\ post.ended_at = pre.ended_at]_vars

\* C3 witness: a start that succeeded and a later start on the same session that was
\* refused, the session staying in-progress.
C3_Witness ==
    \E r1, r2 \in Reqs :
        /\ r1 < r2 /\ Done(r1) /\ Done(r2)
        /\ req[r1].op = "start" /\ req[r2].op = "start" /\ req[r1].sid = req[r2].sid
        /\ req[r1].resp.code = 200 /\ req[r2].resp.code = 400
        /\ req[r1].sid \in DOMAIN sessions
        /\ sessions[req[r1].sid].status = "in-progress"

\* r2 began while r1 was between its read and its write.
Overlap(r1, r2) == r1 \in req[r2].overlaps

\* C4 (as stated): of two start calls that run concurrently on one session, at most
\* one returns success (so started_at is written once).
C4_RacingStarts ==
    \A r1, r2 \in Reqs :
        (r1 # r2 /\ Done(r1) /\ Done(r2) /\ Overlap(r1, r2)
         /\ req[r1].op = "start" /\ req[r2].op = "start" /\ req[r1].sid = req[r2].sid)
        => ~(req[r1].resp.code = 200 /\ req[r2].resp.code = 200)

\* What a call observes of a row, and the outcome of running one call alone on it.
Abs(row) == <<row.status, row.started_at # Null, row.ended_at # Null>>
SeqCall(a, op) ==
    IF Precondition(op, a[1])
    THEN [ok |-> TRUE,
          row |-> <<Target(op), a[2] \/ op = "start", a[3] \/ op = "end">>]
    ELSE [ok |-> FALSE, row |-> a]
SeqPair(a, op1, op2) ==
    LET x == SeqCall(a, op1)
        y == SeqCall(x.row, op2)
    IN [ok1 |-> x.ok, ok2 |-> y.ok, row |-> y.row]

\* C5 (as stated): two overlapping transition calls on one session (with no other
\* request around them) answer, and leave the row, as the two calls run one after
\* the other in some order would.
C5_Linearized ==
    \A r1, r2 \in Reqs :
        (/\ r2 = r1 + 1 /\ Done(r1) /\ Done(r2) /\ Overlap(r1, r2)
         /\ req[r1].op \in Transitions /\ req[r2].op \in Transitions
         /\ req[r1].sid = req[r2].sid /\ req[r1].sid \in DOMAIN sessions
         /\ \A q \in Reqs \ {r1, r2} :
               IF q < r1 THEN Done(q) /\ ~Overlap(q, r1) /\ ~Overlap(q, r2)
               ELSE req[q].pc = "idle")
        => LET base == Abs(req[r1].read)
               ok1 == req[r1].resp.code = 200
               ok2 == req[r2].resp.code = 200
               final == Abs(sessions[req[r1].sid])
               a == SeqPair(base, req[r1].op, req[r2].op)
               b == SeqPair(base, req[r2].op, req[r1].op)
           IN \/ a.ok1 = ok1 /\ a.ok2 = ok2 /\ a.row = final
              \/ b.ok1 = ok2 /\ b.ok2 = ok1 /\ b.row = final

\* C6 (as stated): two retrieves that both found the session without a room_id
\* return the same room_id, and it is the stored one while no other request ran.
C6_ConcurrentFirstReads ==
    \A r1, r2 \in Reqs :
        (r1 # r2 /\ Done(r1) /\ Done(r2)
         /\ req[r1].op = "retrieve" /\ req[r2].op = "retrieve"
         /\ req[r1].sid = req[r2].sid /\ req[r1].sid \in DOMAIN sessions
         /\ req[r1].read.room_id = Null /\ req[r2].read.room_id = Null)
        => /\ req[r1].resp.data.room_id = req[r2].resp.data.room_id
           /\ (\A q \in Reqs \ {r1, r2} : req[q].pc = "idle")
                => sessions[req[r1].sid].room_id = req[r1].resp.data.room_id

\* C7 (as stated): a stored room_id that is not null never changes while the session
\* is stored.
C7_RoomIdImmutable ==
    [][\A sid \in DOMAIN sessions :
          sessions[sid].room_id # Null
             /\ sid \in DOMAIN sessions'
          => sessions'[sid].room_id = sessions[sid].room_id]_vars

\* C8 (as stated): no two sessions have the same non-null room_id.
C8_RoomIdUnique ==
    \A s1, s2 \in DOMAIN sessions :
        (s1 # s2 /\ sessions[s1].room_id # Null) => sessions[s1].room_id # sessions[s2].room_id

\* Request r has just been answered as a successful emergency creation.
EmergencyCreated(r) ==
    /\ req[r].pc # "done" /\ req'[r].pc = "done"
    /\ req'[r].op = "create_emergency" /\ req'[r].resp.code = 201

\* C11: a valid emergency creation is answered with success while its notification
\* dispatch is still running, the session being stored as an emergency session with
\* a room_id and status scheduled; and the end of a dispatch, sent or failed, changes
\* no stored session and no response.
C11_EmergencyNonBlocking ==
    [][/\ \A r \in Reqs : EmergencyCreated(r) =>
             LET sid == req'[r].sid IN
             /\ sid \in DOMAIN sessions' /\ sid \notin DOMAIN sessions
             /\ sessions'[sid].is_emergency /\ sessions'[sid].room_id # Null
             /\ sessions'[sid].status = "scheduled"
             /\ req'[r].resp.data = sessions'[sid]
             /\ mail'[sid].state = "running"
       /\ mail' # mail /\ DOMAIN mail' = DOMAIN mail
             => sessions' = sessions /\ req' = req]_vars

\* C11 witness: the dispatch of a created emergency session has failed and the session
\* is stored as created.
C11_Witness ==
    \E r \in Reqs :
        /\ Done(r) /\ req[r].op = "create_emergency" /\ req[r].resp.code = 201
        /\ mail[req[r].sid].state = "failed"
        /\ req[r].sid \in DOMAIN sessions
        /\ sessions[req[r].sid] = req[r].resp.data

\* Request r has just been answered as an emergency creation whose caller is not
\* admin, therapist or staff, or whose patient_id is absent, matches no user, or
\* names a user that is not a patient.
EmergencyRefused(r) ==
    /\ req[r].pc # "done" /\ req'[r].pc = "done" /\ req'[r].op = "create_emergency"
    /\ \/ req'[r].body.role \notin {"admin", "therapist", "staff"}
       \/ req'[r].body.patient_id = Null
       \/ UserRole(req'[r].body.patient_id) # "client"

\* C12 (as stated): an emergency creation that fails validation is answered with a
\* structured error (an error status with an error message), stores no session,
\* draws no room id and starts no notification.
C12_FailedEmergencyNoEffect ==
    [][\A r \in Reqs : EmergencyRefused(r) =>
          /\ req'[r].resp.code \in {400, 403, 404} /\ req'[r].resp.error # ""
          /\ sessions' = sessions /\ nextUuid' = nextUuid /\ nextId' = nextId
          /\ mail' = mail]_vars

\* Connection c has connected with a room identifier that matches no stored session.
NoSuchRoom(c) ==
    connRoom[c] # Null /\ \A sid \in DOMAIN sessions : sessions[sid].room_id # connRoom[c]

\* Events published by c that are queued for, or were delivered to, some connection.
JoinAnnounced(c) ==
    \/ \E d \in Conns : \E i \in 1..Len(inbox[d]) :
          inbox[d][i].ev.type = "participant_joined" /\ inbox[d][i].ev.sender_channel = c
    \/ \E p \in Outs : Out(p).frame.type = "participant_joined" /\ Out(p).origin = c

\* C13: a connection whose room identifier matches no stored session is never
\* accepted, is never a member of a room group, announces no join, and no frame of
\* it is received or relayed.
C13_RoomNotFoundRejected ==
    \A c \in Conns : NoSuchRoom(c) =>
        /\ conn[c] \in {"rejected", "closed"}
        /\ joins[c] = 0
        /\ \A room \in DOMAIN groups : c \notin groups[room]
        /\ ~JoinAnnounced(c)
        /\ \A n \in 1..Len(sent) : sent[n].from # c
        /\ \A p \in Outs : Out(p).n > 0 => Out(p).origin # c

\* C13 witness: a connection to a room without a session was closed, while another
\* connection is open and has received a frame.
C13_Witness ==
    \E c, d \in Conns :
        /\ NoSuchRoom(c) /\ conn[c] = "closed"
        /\ conn[d] = "open" /\ Len(sent) > 0

\* C14 (as stated): a connection that is open to its client (accepted) is subscribed
\* to its room's group.
C14_AcceptAfterSubscribe ==
    \A c \in Conns :
        conn[c] \in {"accepted", "open"} => c \in Members(groups, connRoom[c])

\* C14 (amended): connect accepts first and subscribes next: an accepted connection
\* whose connect has not finished is not subscribed yet and no frame of it has been
\* handled, a connection whose connect has finished is subscribed, and a frame
\* published to the room in between is never queued for or delivered to it.
C14_SubscribeAfterAccept ==
    /\ \A c \in Conns :
          /\ conn[c] = "accepted" =>
                /\ c \notin Members(groups, connRoom[c])
                /\ \A n \in 1..Len(sent) : sent[n].from # c
          /\ conn[c] = "open" => c \in Members(groups, connRoom[c])
    /\ \A n \in 1..Len(sent) : \A d \in sent[n].early :
          ~Pending(d, n) /\ Delivered(d, n) = {}

\* C14 witness: a relayable frame was published while connection d was accepted but
\* not subscribed; d has since finished connecting and has not been given the frame.
C14_Witness ==
    \E n \in 1..Len(sent) : \E d \in sent[n].early :
        /\ Relayable(sent[n].frame) /\ conn[d] = "open"
        /\ d \in Members(groups, connRoom[d]) /\ inbox[d] = << >>

\* C15 (as stated): handling a frame that does not deserialize, has no type, has an
\* unknown type or lacks its type's payload field publishes nothing and leaves the
\* connection open and subscribed.
C15_BadFramesAbsorbed ==
    [][(Len(sent') = Len(sent) + 1 /\ ~Relayable(sent'[Len(sent')].frame))
       => /\ inbox' = inbox /\ outbox' = outbox
          /\ conn' = conn /\ groups' = groups]_vars

\* The participant_left event disconnect publishes for connection a.
LeftEvent(a) ==
    [ev |-> [type |-> "participant_left", user_id |-> UserId(a), sender_channel |-> a],
     n |-> 0]

\* C16: when a member a of a room disconnects, the participant_left event for a is
\* queued for every connection that is in the room at that moment (a itself still
\* among them: the event is published before a is unsubscribed), the membership
\* afterwards is the previous one without a, and a connection other than a that
\* handles the event sends its client a participant_left frame for a.
C16_LeaveAnnouncement ==
    [][/\ \A a \in Conns : (conn[a] = "open" /\ conn'[a] = "closed") =>
             LET room == connRoom[a]
                 prev == Members(groups, room)
             IN /\ a \in prev
                /\ \A b \in prev : inbox'[b] = Append(inbox[b], LeftEvent(a))
                /\ \A b \in Conns \ prev : inbox'[b] = inbox[b]
                /\ Members(groups', room) = prev \ {a}
                /\ Cardinality(Members(groups', room)) = Cardinality(prev) - 1
       /\ \A a, b \in Conns :
             (a # b /\ inbox[b] # << >> /\ Head(inbox[b]) = LeftEvent(a)
              /\ inbox'[b] = Tail(inbox[b]))
             => outbox'[b] = Append(outbox[b],
                    [frame |-> [type |-> "participant_left", user_id |-> UserId(a)],
                     origin |-> a, n |-> 0])]_vars

\* C16 witness: a and b were in one room, a disconnected, b has been sent the
\* participant_left frame for a and is the only member left.
C16_Witness ==
    \E a, b \in Conns :
        /\ a # b /\ conn[a] = "closed" /\ conn[b] = "open" /\ connRoom[a] = connRoom[b]
        /\ Members(groups, connRoom[a]) = {b}
        /\ \E p \in Outs : p[1] = b /\ Out(p).origin = a
                            /\ Out(p).frame.type = "participant_left"

\* Sessions stored before and after a step.
Kept == DOMAIN sessions \cap DOMAIN sessions'

\* This step completes a successful call of `op` on session sid.
Succeeds(op, sid) ==
    \E r \in Reqs : /\ req[r].pc # "done" /\ req'[r].pc = "done"
                    /\ req'[r].op = op /\ req'[r].sid = sid
                    /\ req'[r].resp.code \in {200, 204}

\* C17 (as stated): started_at changes only in a successful start and ended_at only in
\* a successful end, each from null to a time; once set, neither changes again.
C17_TimestampsWriteOnce ==
    [][\A sid \in Kept :
          LET pre == sessions[sid]
              post == sessions'[sid]
          IN /\ post.started_at # pre.started_at
                  => pre.started_at = Null /\ Succeeds("start", sid)
             /\ post.ended_at # pre.ended_at
                  => pre.ended_at = Null /\ Succeeds("end", sid)]_vars

\* C18 (as stated): a stored status of completed or cancelled never changes, and an
\* in-progress session never returns to scheduled.
C18_TerminalAbsorbing ==
    [][\A sid \in Kept :
          /\ sessions[sid].status \in {"completed", "cancelled"}
                => sessions'[sid].status = sessions[sid].status
          /\ sessions[sid].status = "in-progress"
                => sessions'[sid].status # "scheduled"]_vars

\* C19 (as stated): a step that changes the status, started_at or ended_at of a stored
\* session completes a start, end or cancel call on it (the cancellation that comes
\* with the cancelling of the appointment counts as a cancel).
C19_OnlyTransitionsMutate ==
    [][\A sid \in Kept :
          (\/ sessions'[sid].status # sessions[sid].status
           \/ sessions'[sid].started_at # sessions[sid].started_at
           \/ sessions'[sid].ended_at # sessions[sid].ended_at)
          => \E op \in Transitions \cup {"appointment_cancel"} : Succeeds(op, sid)]_vars

Rejected(r) == Done(r) /\ req[r].op \in Transitions /\ req[r].resp.code = 400

\* C21 (as stated): the error of a refused start, end or cancel tells the attempted
\* operation and the status the session had: two refusals that differ in either have
\* different errors.
C21_StructuredTransitionError ==
    \A r1, r2 \in Reqs :
        (Rejected(r1) /\ Rejected(r2)
         /\ (req[r1].op # req[r2].op \/ req[r1].read.status # req[r2].read.status))
        => req[r1].resp.error # req[r2].resp.error

\* C22: the frames a connection b is given that come from one sender a are given in
\* the order a sent them, and those still queued for b follow in that order too.
C22_PerSenderFIFO ==
    \A b \in Conns :
        /\ \A i, j \in 1..Len(outbox[b]) :
              (i < j /\ outbox[b][i].origin = outbox[b][j].origin
               /\ outbox[b][i].n > 0 /\ outbox[b][j].n > 0)
              => outbox[b][i].n < outbox[b][j].n
        /\ \A i, j \in 1..Len(inbox[b]) :
              (i < j /\ inbox[b][i].ev.sender_channel = inbox[b][j].ev.sender_channel
               /\ inbox[b][i].n > 0 /\ inbox[b][j].n > 0)
              => inbox[b][i].n < inbox[b][j].n
        /\ \A i \in 1..Len(outbox[b]), j \in 1..Len(inbox[b]) :
              (outbox[b][i].origin = inbox[b][j].ev.sender_channel
               /\ outbox[b][i].n > 0 /\ inbox[b][j].n > 0)
              => outbox[b][i].n < inbox[b][j].n

\* C22 witness: b has been given two frames that a sent, the first before the second.
C22_Witness ==
    \E a, b \in Conns : \E i, j \in 1..Len(outbox[b]) :
        /\ a # b /\ i < j /\ outbox[b][i].origin = a /\ outbox[b][j].origin = a
        /\ outbox[b][i].n = 1 /\ outbox[b][j].n = 2
        /\ sent[1].from = a /\ sent[2].from = a

\* The operations that fetch a session for a caller.
Fetches == {"retrieve", "my_sessions"}
Fetched(r) == Done(r) /\ req[r].op \in Fetches /\ req[r].resp.code = 200

\* C23 (as stated): a fetch answers with a session that carries a room_id, the one
\* stored when the answer is given, and the one every earlier fetch of that session
\* returned.
C23_LazyRoomAssignment ==
    [][\A r \in Reqs :
          (~Fetched(r) /\ Fetched(r)')
          => LET sid == req'[r].sid
                 room == req'[r].resp.data.room_id
             IN /\ room # Null
                /\ sid \in DOMAIN sessions' /\ sessions'[sid].room_id = room
                /\ \A q \in Reqs \ {r} :
                      (Fetched(q) /\ req[q].sid = sid) => req[q].resp.data.room_id = room]_vars

\* The participant_joined event connect publishes for connection a.
JoinEvent(a) ==
    [ev |-> [type |-> "participant_joined", user_id |-> UserId(a), sender_channel |-> a],
     n |-> 0]

\* A frame whose type is the join announcement has just been handled.
JoinFrameHandled ==
    /\ Len(sent') = Len(sent) + 1
    /\ "type" \in DOMAIN sent'[Len(sent')].frame
    /\ sent'[Len(sent')].frame.type = "join"

C25_EmergencyStepOrder ==
    [][/\ \A sid \in DOMAIN mail' \ DOMAIN mail :
             /\ \E r \in Reqs :
                   /\ EmergencyCreated(r) /\ req'[r].sid = sid
                   /\ req'[r].body.role \in {"admin", "therapist", "staff"}
                   /\ UserRole(req'[r].body.patient_id) = "client"
             /\ sid \in DOMAIN sessions' \ DOMAIN sessions
             /\ mail'[sid].state = "running"
             /\ mail'[sid].room_id = sessions'[sid].room_id
             /\ mail'[sid].session_url = sessions'[sid].session_url
             /\ sessions'[sid].room_id # Null
             /\ sessions'[sid].session_url = JoinUrl(sessions'[sid].room_id)
       /\ \A sid \in DOMAIN mail :
             /\ sid \in DOMAIN mail'
             /\ mail'[sid].room_id = mail[sid].room_id
             /\ mail'[sid].session_url = mail[sid].session_url
             /\ mail[sid].state # "running" => mail'[sid].state = mail[sid].state]_vars

\* C25 witness: the dispatch of a created emergency session has ended, and it carried
\* the room_id and the join URL the session is stored with.
C25_Witness ==
    \E r \in Reqs :
        /\ Done(r) /\ req[r].op = "create_emergency" /\ req[r].resp.code = 201
        /\ req[r].sid \in DOMAIN sessions /\ req[r].sid \in DOMAIN mail
        /\ mail[req[r].sid].state = "sent"
        /\ mail[req[r].sid].room_id = sessions[req[r].sid].room_id
        /\ mail[req[r].sid].session_url = JoinUrl(sessions[req[r].sid].room_id)

\* The frame without the sender tag its client put in.
Untagged(frame) == [k \in DOMAIN frame \ {"sender_channel"} |-> frame[k]]

\* The events a text frame makes its connection publish.
Published(c, frame) == IF "bytes" \in DOMAIN frame THEN << >> ELSE receive(c, frame)

\* C26: every queued event carries the handle of the connection that produced it (the
\* sender of the frame, or the connection that joined or left), every delivered frame
\* is recorded under that handle, and what a frame publishes and delivers is what the
\* same frame without a client-supplied sender tag would.
C26_SenderTagByRelay ==
    /\ \A b \in Conns : \A i \in 1..Len(inbox[b]) :
          LET m == inbox[b][i] IN
          IF m.n > 0
          THEN /\ m.ev.sender_channel = sent[m.n].from
               /\ <<m.ev>> = Published(sent[m.n].from, Untagged(sent[m.n].frame))
          ELSE /\ m.ev.type \in {"participant_joined", "participant_left"}
               /\ m.ev.type = "participant_joined" => joins[m.ev.sender_channel] > 0
               /\ m.ev.type = "participant_left" => leaves[m.ev.sender_channel] > 0
               /\ m.ev.user_id = UserId(m.ev.sender_channel)
    /\ \A p \in Outs :
          Out(p).n > 0 =>
             LET from == sent[Out(p).n].from
                 evs == Published(from, Untagged(sent[Out(p).n].frame))
             IN /\ Out(p).origin = from
                /\ Len(evs) = 1 /\ <<Out(p).frame>> = Dispatch(p[1], evs[1])

\* C26 witness: connection 1 sent an offer tagged by its client as coming from
\* connection 2, and connection 2 has been given it as an offer from connection 1.
C26_Witness ==
    \E n \in 1..Len(sent) : \E p \in Outs :
        /\ sent[n].from = 1 /\ "sender_channel" \in DOMAIN sent[n].frame
        /\ sent[n].frame.sender_channel = 2
        /\ p[1] = 2 /\ Out(p).n = n /\ Out(p).origin = 1

\* C27: an event queued for a connection, and a frame delivered to it, was produced by
\* a connection of the same room.
C27_RoomIsolation ==
    /\ \A b \in Conns : \A i \in 1..Len(inbox[b]) :
          connRoom[inbox[b][i].ev.sender_channel] = connRoom[b]
    /\ \A p \in Outs : connRoom[Out(p).origin] = connRoom[p[1]]
    /\ \A room \in DOMAIN groups : \A c \in groups[room] : connRoom[c] = room

\* C27 witness: two connections are open in different rooms, one of them has sent a
\* relayable frame, and the other has been queued and given nothing but its own join.
C27_Witness ==
    \E a, b \in Conns : \E n \in 1..Len(sent) :
        /\ conn[a] = "open" /\ conn[b] = "open" /\ connRoom[a] # connRoom[b]
        /\ sent[n].from = a /\ Relayable(sent[n].frame)
        /\ inbox[b] = << >> /\ outbox[b] = << >>

\* C28 (as stated): a connection for which participant_left was published has joined
\* its room's group and announced its join before (connect does both or neither).
C28_NoLeaveWithoutJoin ==
    \A c \in Conns : leftPublished[c] > 0 => joins[c] > 0

\* C29 (as stated): once disconnect has run for a connection that was subscribed, the
\* connection is not a member of its room's group, and nothing is queued for it
\* afterwards, also when the channel layer failed during the disconnect.
C29_DisconnectUnsubscribes ==
    [][\A c \in Conns : (conn'[c] = "closed" /\ joins'[c] > 0) =>
          /\ c \notin Members(groups', connRoom'[c])
          /\ conn[c] = "closed" => inbox'[c] = inbox[c]]_vars

\* C30: with no record update among the operations, every stored session has
\* started_at and ended_at null when scheduled, started_at set and ended_at null when
\* in-progress, both set when completed, and ended_at set only when completed.
C30_StatusTimestampConsistency ==
    \A sid \in DOMAIN sessions :
        LET row == sessions[sid] IN
        /\ row.status \in {"scheduled", "in-progress", "completed", "cancelled"}
        /\ row.status = "scheduled" => row.started_at = Null /\ row.ended_at = Null
        /\ row.status = "in-progress" => row.started_at # Null /\ row.ended_at = Null
        /\ row.status = "completed" => row.started_at # Null /\ row.ended_at # Null
        /\ row.ended_at # Null => row.status = "completed"

\* C30 witness: a session was started and ended, and a cancel that had read it before
\* the end was saved afterwards: it is cancelled with started_at set.
C30_Witness ==
    \E r1, r2 \in Reqs :
        /\ Done(r1) /\ Done(r2) /\ req[r1].sid = req[r2].sid
        /\ req[r1].op = "end" /\ req[r1].resp.code = 200
        /\ req[r2].op = "cancel" /\ req[r2].resp.code = 200
        /\ req[r1].sid \in DOMAIN sessions
        /\ sessions[req[r1].sid].status = "cancelled"
        /\ sessions[req[r1].sid].started_at # Null

====
